---- MODULE Spec2Model ----
(***************************************************************************)
(* Model of the department analyzer:                                       *)
(*   csvParser.ts      parseCSVText, validateAndCleanData, cleanRow and the *)
(*                     clean* helpers, validateCSVStructure                 *)
(*   dataProcessor.ts  processCSVData and the derived queries               *)
(*   exportUtils.ts    the export functions and their renderers             *)
(*   the upload page   handleFileUpload and handleDownload                  *)
(*                                                                         *)
(* JavaScript values are modelled explicitly:                              *)
(*   - a number is a record [k, n, d]: k = "fin" is the exact rational n/d  *)
(*     (d > 0, reduced), k = "inf" is +Infinity (n = 1) or -Infinity        *)
(*     (n = -1), k = "nan" is NaN.  Rounding of IEEE doubles is not         *)
(*     modelled: finite arithmetic is exact.                                *)
(*   - a string is a sequence of one-character strings.                     *)
(*   - a raw cell value is a record [t, s, v] tagged "undef", "null",       *)
(*     "str" (s) or "num" (v).                                              *)
(*   - an object is a function from its keys to values; a Map is the        *)
(*     sequence of its entries in insertion order.                          *)
(***************************************************************************)
EXTENDS Integers, Sequences, FiniteSets, TLC

(***************************************************************************)
(* Bounds of the model.                                                    *)
(***************************************************************************)
MaxRows == 3
MaxAmount == 1
MaxRecords == 2
MaxQueryRows == 2
MaxExportRows == 2
MaxUploads == 2

(***************************************************************************)
(* JavaScript numbers.                                                     *)
(***************************************************************************)
Abs(x) == IF x < 0 THEN -x ELSE x

Sign(x) == IF x < 0 THEN -1 ELSE IF x > 0 THEN 1 ELSE 0

RECURSIVE GCD(_, _)
GCD(a, b) == IF b = 0 THEN a ELSE GCD(b, a % b)

MkFin(n, d) ==
    LET g == GCD(Abs(n), d)
    IN  [k |-> "fin", n |-> Sign(n) * (Abs(n) \div g), d |-> d \div g]

Num(i) == [k |-> "fin", n |-> i, d |-> 1]

NaN == [k |-> "nan", n |-> 0, d |-> 1]

Infinity == [k |-> "inf", n |-> 1, d |-> 1]

NegInfinity == [k |-> "inf", n |-> -1, d |-> 1]

InfOfSign(s) == IF s < 0 THEN NegInfinity ELSE Infinity

IsNaN(a) == a.k = "nan"

IsFinite(a) == a.k = "fin"

JsNeg(a) == IF a.k = "nan" THEN NaN ELSE [a EXCEPT !.n = -a.n]

JsAdd(a, b) ==
    IF a.k = "nan" \/ b.k = "nan" THEN NaN
    ELSE IF a.k = "inf" /\ b.k = "inf" THEN (IF a.n = b.n THEN a ELSE NaN)
    ELSE IF a.k = "inf" THEN a
    ELSE IF b.k = "inf" THEN b
    ELSE MkFin(a.n * b.d + b.n * a.d, a.d * b.d)

JsSub(a, b) == JsAdd(a, JsNeg(b))

JsMul(a, b) ==
    IF a.k = "nan" \/ b.k = "nan" THEN NaN
    ELSE IF a.k = "inf" \/ b.k = "inf"
         THEN (IF a.n = 0 \/ b.n = 0 THEN NaN ELSE InfOfSign(Sign(a.n) * Sign(b.n)))
    ELSE MkFin(a.n * b.n, a.d * b.d)

JsDiv(a, b) ==
    IF a.k = "nan" \/ b.k = "nan" THEN NaN
    ELSE IF a.k = "inf" THEN (IF b.k = "inf" THEN NaN
                              ELSE InfOfSign(a.n * (IF b.n < 0 THEN -1 ELSE 1)))
    ELSE IF b.k = "inf" THEN Num(0)
    ELSE IF b.n = 0 THEN (IF a.n = 0 THEN NaN ELSE InfOfSign(a.n))
    ELSE MkFin(a.n * b.d * Sign(b.n), a.d * Abs(b.n))

\* a > b in JavaScript: false as soon as one side is NaN.
JsGt(a, b) ==
    LET diff == JsSub(a, b)
    IN  /\ a.k # "nan"
        /\ b.k # "nan"
        /\ diff.k # "nan"
        /\ diff.n > 0

JsGe(a, b) == a.k # "nan" /\ b.k # "nan" /\ (a = b \/ JsGt(a, b))

\* ToBoolean of a number: 0 and NaN are falsy.
TruthyNum(a) == ~(a.k = "nan" \/ (a.k = "fin" /\ a.n = 0))

\* value || 0 for a number
OrZero(a) == IF TruthyNum(a) THEN a ELSE Num(0)

(***************************************************************************)
(* JavaScript strings: sequences of one-character strings.                 *)
(***************************************************************************)
Digits == {"0", "1", "2", "3", "4", "5", "6", "7", "8", "9"}

DigitVal(c) ==
    CASE c = "0" -> 0 [] c = "1" -> 1 [] c = "2" -> 2 [] c = "3" -> 3
      [] c = "4" -> 4 [] c = "5" -> 5 [] c = "6" -> 6 [] c = "7" -> 7
      [] c = "8" -> 8 [] c = "9" -> 9

DigitChar(i) ==
    CASE i = 0 -> "0" [] i = 1 -> "1" [] i = 2 -> "2" [] i = 3 -> "3"
      [] i = 4 -> "4" [] i = 5 -> "5" [] i = 6 -> "6" [] i = 7 -> "7"
      [] i = 8 -> "8" [] i = 9 -> "9"

IsSpace(c) == c = " "

InfinityWord == <<"I", "n", "f", "i", "n", "i", "t", "y">>

RECURSIVE Pow10(_)
Pow10(e) == IF e = 0 THEN 1 ELSE 10 * Pow10(e - 1)

\* String.prototype.trim
RECURSIVE TrimLeft(_)
TrimLeft(s) ==
    IF s = <<>> THEN s
    ELSE IF IsSpace(Head(s)) THEN TrimLeft(Tail(s)) ELSE s

RECURSIVE TrimRight(_)
TrimRight(s) ==
    IF s = <<>> THEN s
    ELSE IF IsSpace(s[Len(s)]) THEN TrimRight(SubSeq(s, 1, Len(s) - 1)) ELSE s

Trim(s) == TrimRight(TrimLeft(s))

\* value.replace(/[$,\s]/g, '')
StripCurrency(s) == SelectSeq(s, LAMBDA c : ~(c = "$" \/ c = "," \/ IsSpace(c)))

\* length of the longest prefix of s made of decimal digits
RECURSIVE DigitPrefixLen(_)
DigitPrefixLen(s) ==
    IF s = <<>> \/ Head(s) \notin Digits THEN 0 ELSE 1 + DigitPrefixLen(Tail(s))

\* value of a sequence of decimal digits
RECURSIVE DigitsValue(_)
DigitsValue(s) ==
    IF s = <<>> THEN 0 ELSE 10 * DigitsValue(SubSeq(s, 1, Len(s) - 1)) + DigitVal(s[Len(s)])

\* parseFloat: leading white space, optional sign, then "Infinity" or the longest
\* prefix digits[.digits]; NaN when there is no such prefix.  (Exponents are not
\* modelled.)
ParseFloat(str) ==
    LET s0   == TrimLeft(str)
        neg  == s0 # <<>> /\ Head(s0) = "-"
        s    == IF s0 # <<>> /\ Head(s0) \in {"-", "+"} THEN Tail(s0) ELSE s0
        il   == DigitPrefixLen(s)
        r    == SubSeq(s, il + 1, Len(s))
        fl   == IF r # <<>> /\ Head(r) = "." THEN DigitPrefixLen(Tail(r)) ELSE 0
        ival == DigitsValue(SubSeq(s, 1, il))
        fval == DigitsValue(SubSeq(s, il + 2, il + 1 + fl))
        mag  == MkFin(ival * Pow10(fl) + fval, Pow10(fl))
    IN  IF Len(s) >= 8 /\ SubSeq(s, 1, 8) = InfinityWord
        THEN (IF neg THEN NegInfinity ELSE Infinity)
        ELSE IF il = 0 /\ fl = 0 THEN NaN
        ELSE IF neg THEN JsNeg(mag) ELSE mag

\* String.prototype.toLowerCase, on the letters the model uses
ToLowerChar(c) ==
    CASE c = "A" -> "a" [] c = "B" -> "b" [] c = "C" -> "c" [] c = "I" -> "i"
      [] c = "N" -> "n" [] OTHER -> c

ToLowerCase(s) == [i \in 1..Len(s) |-> ToLowerChar(s[i])]

\* String.prototype.includes
Includes(s, sub) ==
    \E i \in 1..(Len(s) + 1) :
        /\ i + Len(sub) - 1 <= Len(s)
        /\ SubSeq(s, i, i + Len(sub) - 1) = sub

\* UTF-16 code unit of the characters the model uses
CharCode(c) ==
    CASE c = " " -> 32 [] c = "$" -> 36 [] c = "," -> 44 [] c = "-" -> 45
      [] c = "." -> 46 [] c \in Digits -> 48 + DigitVal(c)
      [] c = "A" -> 65 [] c = "B" -> 66 [] c = "C" -> 67 [] c = "I" -> 73
      [] c = "N" -> 78 [] c = "a" -> 97 [] c = "b" -> 98 [] c = "c" -> 99
      [] c = "f" -> 102 [] c = "i" -> 105 [] c = "n" -> 110 [] c = "t" -> 116
      [] c = "y" -> 121

\* s < t, comparing code units (the order of the default Array.prototype.sort)
RECURSIVE StrLess(_, _)
StrLess(s, t) ==
    IF t = << >> THEN FALSE
    ELSE IF s = << >> THEN TRUE
    ELSE IF CharCode(Head(s)) # CharCode(Head(t)) THEN CharCode(Head(s)) < CharCode(Head(t))
    ELSE StrLess(Tail(s), Tail(t))

\* decimal digits of a natural number
RECURSIVE NatToStr(_)
NatToStr(i) ==
    IF i < 10 THEN <<DigitChar(i)>> ELSE NatToStr(i \div 10) \o <<DigitChar(i % 10)>>

\* String(number), for the integers and the special values (the only numbers
\* a category cell of the model holds)
NumToStr(a) ==
    CASE a.k = "nan" -> <<"N", "a", "N">>
      [] a.k = "inf" /\ a.n > 0 -> InfinityWord
      [] a.k = "inf" /\ a.n < 0 -> <<"-">> \o InfinityWord
      [] a.k = "fin" /\ a.d = 1 /\ a.n >= 0 -> NatToStr(a.n)
      [] a.k = "fin" /\ a.d = 1 /\ a.n < 0 -> <<"-">> \o NatToStr(-a.n)

(***************************************************************************)
(* Raw cell values (what the tokenizer hands over): undefined (a missing   *)
(* key), null, a string or a number.                                       *)
(***************************************************************************)
Undefined == [t |-> "undef", s |-> <<>>, v |-> Num(0)]

Null == [t |-> "null", s |-> <<>>, v |-> Num(0)]

Str(s) == [t |-> "str", s |-> s, v |-> Num(0)]

NumV(v) == [t |-> "num", s |-> <<>>, v |-> v]

\* ToBoolean(value)
Truthy(value) ==
    CASE value.t = "undef" -> FALSE
      [] value.t = "null" -> FALSE
      [] value.t = "str" -> value.s # <<>>
      [] value.t = "num" -> TruthyNum(value.v)

\* String(value), for the values that reach it
StringOf(value) ==
    CASE value.t = "str" -> value.s
      [] value.t = "num" -> NumToStr(value.v)

\* row[key]: undefined when the object has no such key
Get(row, key) == IF key \in DOMAIN row THEN row[key] ELSE Undefined

\* results that may be null
NullResult == [isNull |-> TRUE, val |-> <<>>]

Some(x) == [isNull |-> FALSE, val |-> x]

(***************************************************************************)
(* csvParser.ts: the row normalizer.                                       *)
(***************************************************************************)
DeptKey == "Department Name"

PriceKey == "Extended Price"

MissingDept == "Missing or invalid Department Name"

MissingPrice == "Missing or invalid Extended Price"

\* cleanDepartmentName(value): string | null
cleanDepartmentName(value) ==
    IF ~Truthy(value) THEN NullResult
    ELSE LET cleaned == Trim(StringOf(value))
         IN  IF Len(cleaned) > 0 THEN Some(cleaned) ELSE NullResult

\* cleanExtendedPrice(value): number | null
cleanExtendedPrice(value) ==
    IF value.t = "null" \/ value.t = "undef" \/ (value.t = "str" /\ value.s = <<>>)
    THEN NullResult
    ELSE IF value.t = "str"
         THEN LET parsed == ParseFloat(StripCurrency(value.s))
              IN  IF IsNaN(parsed) THEN NullResult ELSE Some(parsed)
    ELSE IF value.t = "num"
         THEN (IF IsNaN(value.v) THEN NullResult ELSE Some(value.v))
    ELSE NullResult

\* the object cleanRow builds: the two cleaned fields, then every other column
CleanedRowOf(row, deptName, extendedPrice) ==
    [key \in DOMAIN row \cup {DeptKey, PriceKey} |->
        IF key = DeptKey THEN deptName
        ELSE IF key = PriceKey THEN extendedPrice
        ELSE row[key]]

\* cleanRow(row, rowIndex): kind "row" (a cleaned row), "null" (skipped) or
\* "throw" (an Error with the given message)
cleanRow(row, rowIndex) ==
    LET deptName      == cleanDepartmentName(Get(row, DeptKey))
        extendedPrice == cleanExtendedPrice(Get(row, PriceKey))
    IN  IF DOMAIN row = {}
        THEN [kind |-> "null", row |-> << >>, message |-> ""]
        ELSE IF deptName.isNull
        THEN [kind |-> "throw", row |-> << >>, message |-> MissingDept]
        ELSE IF extendedPrice.isNull
        THEN [kind |-> "throw", row |-> << >>, message |-> MissingPrice]
        ELSE [kind |-> "row",
              row |-> CleanedRowOf(row, deptName.val, extendedPrice.val),
              message |-> ""]

\* faulty variant of catchRowError: the Error is rethrown instead of recorded
catchRowErrorRethrow(acc, index, message) == [acc EXCEPT !.threw = TRUE]

\* the catch block of validateAndCleanData: the Error becomes a warning
\* `Row ${index + 1}: ${message}` and the loop goes on
catchRowError(acc, index, message) ==
    [acc EXCEPT !.errors = Append(@, [row |-> index + 1, message |-> message])]

\* the forEach of validateAndCleanData from position pos on (index = pos - 1 is
\* the 0-based forEach index); an Error that leaves the callback ends the loop
RECURSIVE CleanLoop(_, _, _)
CleanLoop(rawData, pos, acc) ==
    IF pos > Len(rawData) \/ acc.threw THEN acc
    ELSE LET r == cleanRow(rawData[pos], pos - 1)
         IN  CleanLoop(rawData, pos + 1,
                CASE r.kind = "row" ->
                        [acc EXCEPT !.cleanedData = Append(@, r.row)]
                  [] r.kind = "null" -> acc
                  [] r.kind = "throw" -> catchRowError(acc, pos - 1, r.message))

\* what validateAndCleanData hands back once the loop has ended: cleanedData is
\* returned; errors is local and goes to console.warn when it is not empty
CleanOutcome(acc) ==
    [returned |-> IF acc.threw THEN << >> ELSE acc.cleanedData,
     warned   |-> IF acc.threw THEN << >> ELSE acc.errors,
     threw    |-> acc.threw]

validateAndCleanData(rawData) ==
    CleanOutcome(CleanLoop(rawData, 1,
                    [cleanedData |-> << >>, errors |-> << >>, threw |-> FALSE]))

\* the ParseResult parseCSVText returns, given the tokenizer's results and what
\* validateAndCleanData(results.data) did: data is the cleaned rows, errors is
\* results.errors.map(err => err.message)
ParseResultOf(results, cleaned) ==
    [data   |-> cleaned.returned,
     errors |-> [i \in 1..Len(results.errors) |-> results.errors[i].message],
     threw  |-> cleaned.threw]

\* parseCSVText(csvText), from the tokenizer's results on
parseCSVText(results) == ParseResultOf(results, validateAndCleanData(results.data))

RequiredFields == <<DeptKey, PriceKey>>

\* the requiredFields.forEach of validateCSVStructure
MissingColumnErrors(firstRow) ==
    SelectSeq([i \in 1..Len(RequiredFields) |->
                  [kind |-> "Missing required column", field |-> RequiredFields[i]]],
              LAMBDA e : e.field \notin DOMAIN firstRow)

\* the filter of validateCSVStructure: row['Department Name'] is truthy and
\* row['Extended Price'] is neither null nor undefined
IsValidRow(row) ==
    /\ Truthy(Get(row, DeptKey))
    /\ Get(row, PriceKey).t # "null"
    /\ Get(row, PriceKey).t # "undef"

\* validateCSVStructure(data): { isValid, errors }
StructureErrors(data) ==
    IF Len(data) = 0
    THEN <<[kind |-> "CSV file is empty or invalid", field |-> ""]>>
    ELSE MissingColumnErrors(data[1])
         \o (IF SelectSeq(data, IsValidRow) = << >>
             THEN <<[kind |-> "No valid data rows found", field |-> ""]>>
             ELSE << >>)

StructureResult(errors) == [isValid |-> Len(errors) = 0, errors |-> errors]

validateCSVStructure(data) == StructureResult(StructureErrors(data))

(***************************************************************************)
(* dataProcessor.ts: the aggregation engine.                               *)
(***************************************************************************)
\* a Map is the sequence of its [key, value] entries in insertion order
MapHas(m, key) == \E i \in 1..Len(m) : m[i].key = key

MapIndex(m, key) == CHOOSE i \in 1..Len(m) : m[i].key = key

MapSet(m, key, value) ==
    IF MapHas(m, key)
    THEN [m EXCEPT ![MapIndex(m, key)] = [key |-> key, value |-> value]]
    ELSE Append(m, [key |-> key, value |-> value])

\* a string is truthy when it is not empty
TruthyStr(s) == s # << >>

\* faulty variant of Compare: the operands swapped (an ascending sort)
CompareAscending(a, b, field) == JsSub(a[field], b[field])

\* comparator (a, b) => b[field] - a[field]
Compare(a, b, field) == JsSub(b[field], a[field])

\* faulty variant of InsertSorted: an element also moves past its equals (unstable)
RECURSIVE InsertSortedUnstable(_, _, _)
InsertSortedUnstable(sorted, x, field) ==
    IF sorted = << >> THEN <<x>>
    ELSE LET y == sorted[Len(sorted)]
         IN  IF JsGe(JsSub(x[field], y[field]), Num(0))
             THEN Append(InsertSortedUnstable(SubSeq(sorted, 1, Len(sorted) - 1),
                                              x, field), y)
             ELSE Append(sorted, x)

\* Array.prototype.sort with that comparator: a stable sort (ECMAScript 2019);
\* an element moves left past every element the comparator puts after it
RECURSIVE InsertSorted(_, _, _)
InsertSorted(sorted, x, field) ==
    IF sorted = << >> THEN <<x>>
    ELSE LET y == sorted[Len(sorted)]
         IN  IF JsGt(Compare(y, x, field), Num(0))
             THEN Append(InsertSorted(SubSeq(sorted, 1, Len(sorted) - 1), x, field), y)
             ELSE Append(sorted, x)

RECURSIVE SortFrom(_, _, _, _)
SortFrom(arr, i, sorted, field) ==
    IF i > Len(arr) THEN sorted
    ELSE SortFrom(arr, i + 1, InsertSorted(sorted, arr[i], field), field)

SortDescending(arr, field) == SortFrom(arr, 1, << >>, field)

\* data.forEach of calculateDepartmentCounts
RECURSIVE CountLoop(_, _, _)
CountLoop(data, i, counts) ==
    IF i > Len(data) THEN counts
    ELSE LET dept == data[i][DeptKey]
             old  == IF MapHas(counts, dept)
                     THEN OrZero(counts[MapIndex(counts, dept)].value)
                     ELSE Num(0)
         IN  CountLoop(data, i + 1,
                IF TruthyStr(dept) THEN MapSet(counts, dept, JsAdd(old, Num(1)))
                ELSE counts)

\* percentage of a count: totalRows > 0 ? (count / totalRows) * 100 : 0
CountPercentage(count, totalRows) ==
    IF JsGt(totalRows, Num(0)) THEN JsMul(JsDiv(count, totalRows), Num(100))
    ELSE Num(0)

\* faulty variant of calculateDepartmentCounts: the first row is not counted
calculateDepartmentCountsSkipFirst(data) ==
    LET counts    == CountLoop(data, 2, << >>)
        totalRows == Num(Len(data))
        mapped    == [i \in 1..Len(counts) |->
                        [department |-> counts[i].key,
                         count      |-> counts[i].value,
                         percentage |-> CountPercentage(counts[i].value, totalRows)]]
    IN  SortDescending(mapped, "count")

calculateDepartmentCounts(data) ==
    LET counts    == CountLoop(data, 1, << >>)
        totalRows == Num(Len(data))
        mapped    == [i \in 1..Len(counts) |->
                        [department |-> counts[i].key,
                         count      |-> counts[i].value,
                         percentage |-> CountPercentage(counts[i].value, totalRows)]]
    IN  SortDescending(mapped, "count")

\* faulty variant of TotalLoop: a row with a negative price adds nothing
RECURSIVE TotalLoopDropNegative(_, _, _)
TotalLoopDropNegative(data, i, totals) ==
    IF i > Len(data) THEN totals
    ELSE LET dept     == data[i][DeptKey]
             p        == OrZero(data[i][PriceKey])
             price    == IF JsGt(Num(0), p) THEN Num(0) ELSE p
             existing == IF MapHas(totals, dept)
                         THEN totals[MapIndex(totals, dept)].value
                         ELSE [sum |-> Num(0), count |-> Num(0)]
         IN  TotalLoopDropNegative(data, i + 1,
                IF TruthyStr(dept)
                THEN MapSet(totals, dept,
                        [sum   |-> JsAdd(existing.sum, price),
                         count |-> JsAdd(existing.count, Num(1))])
                ELSE totals)

\* data.forEach of calculateDepartmentTotals
RECURSIVE TotalLoop(_, _, _)
TotalLoop(data, i, totals) ==
    IF i > Len(data) THEN totals
    ELSE LET dept     == data[i][DeptKey]
             price    == OrZero(data[i][PriceKey])
             existing == IF MapHas(totals, dept)
                         THEN totals[MapIndex(totals, dept)].value
                         ELSE [sum |-> Num(0), count |-> Num(0)]
         IN  TotalLoop(data, i + 1,
                IF TruthyStr(dept)
                THEN MapSet(totals, dept,
                        [sum   |-> JsAdd(existing.sum, price),
                         count |-> JsAdd(existing.count, Num(1))])
                ELSE totals)

\* Array.from(totals.values()).reduce((sum, dept) => sum + dept.sum, 0)
RECURSIVE SumOfSums(_, _, _)
SumOfSums(totals, i, sum) ==
    IF i > Len(totals) THEN sum
    ELSE SumOfSums(totals, i + 1, JsAdd(sum, totals[i].value.sum))

\* percentage of a total: grandTotal > 0 ? (sum / grandTotal) * 100 : 0
TotalPercentage(sum, grandTotal) ==
    IF JsGt(grandTotal, Num(0)) THEN JsMul(JsDiv(sum, grandTotal), Num(100))
    ELSE Num(0)

\* average of a category: count > 0 ? sum / count : 0
TotalAverage(sum, count) ==
    IF JsGt(count, Num(0)) THEN JsDiv(sum, count) ELSE Num(0)

calculateDepartmentTotals(data) ==
    LET totals     == TotalLoop(data, 1, << >>)
        grandTotal == SumOfSums(totals, 1, Num(0))
        mapped     == [i \in 1..Len(totals) |->
                         [department |-> totals[i].key,
                          total      |-> totals[i].value.sum,
                          average    |-> TotalAverage(totals[i].value.sum,
                                                      totals[i].value.count),
                          percentage |-> TotalPercentage(totals[i].value.sum,
                                                         grandTotal)]]
    IN  SortDescending(mapped, "total")

\* departmentTotals.reduce((sum, dept) => sum + dept.total, 0)
RECURSIVE SumOfTotals(_, _, _)
SumOfTotals(departmentTotals, i, sum) ==
    IF i > Len(departmentTotals) THEN sum
    ELSE SumOfTotals(departmentTotals, i + 1, JsAdd(sum, departmentTotals[i].total))

\* a ? b / c : 0 of the two averages, guarded by denominator > 0
GuardedAverage(total, denominator) ==
    IF JsGt(denominator, Num(0)) THEN JsDiv(total, denominator) ELSE Num(0)

calculateSummary(data, departmentCounts, departmentTotals) ==
    LET totalRows        == Num(Len(data))
        totalDepartments == Num(Len(departmentCounts))
        grandTotal       == SumOfTotals(departmentTotals, 1, Num(0))
    IN  [totalRows             |-> totalRows,
         totalDepartments      |-> totalDepartments,
         grandTotal            |-> grandTotal,
         averagePerTransaction |-> GuardedAverage(grandTotal, totalRows),
         averagePerDepartment  |-> GuardedAverage(grandTotal, totalDepartments)]

EmptyProcessedData ==
    [departmentCounts |-> << >>,
     departmentTotals |-> << >>,
     summary |-> [totalRows             |-> Num(0),
                  totalDepartments      |-> Num(0),
                  grandTotal            |-> Num(0),
                  averagePerTransaction |-> Num(0),
                  averagePerDepartment  |-> Num(0)]]

\* faulty variant of processCSVData: no early return and no guard on the denominators
processCSVDataUnguarded(data) ==
    LET departmentCounts == calculateDepartmentCounts(data)
        departmentTotals == calculateDepartmentTotals(data)
        totalRows        == Num(Len(data))
        totalDepartments == Num(Len(departmentCounts))
        grandTotal       == SumOfTotals(departmentTotals, 1, Num(0))
    IN  [departmentCounts |-> departmentCounts,
         departmentTotals |-> departmentTotals,
         summary |-> [totalRows             |-> totalRows,
                      totalDepartments      |-> totalDepartments,
                      grandTotal            |-> grandTotal,
                      averagePerTransaction |-> JsDiv(grandTotal, totalRows),
                      averagePerDepartment  |-> JsDiv(grandTotal, totalDepartments)]]

processCSVData(data) ==
    IF Len(data) = 0 THEN EmptyProcessedData
    ELSE LET departmentCounts == calculateDepartmentCounts(data)
             departmentTotals == calculateDepartmentTotals(data)
         IN  [departmentCounts |-> departmentCounts,
              departmentTotals |-> departmentTotals,
              summary |-> calculateSummary(data, departmentCounts, departmentTotals)]

\* faulty variant of CallProcessCSVData: the argument array itself is sorted by price
CallProcessCSVDataSortsInput(data) ==
    [returned |-> processCSVData(data), data |-> SortDescending(data, PriceKey)]

\* filterByDepartment(data, departmentName): case-insensitive contains
filterByDepartment(data, departmentName) ==
    SelectSeq(data, LAMBDA row :
        /\ DeptKey \in DOMAIN row
        /\ Includes(ToLowerCase(row[DeptKey]), ToLowerCase(departmentName)))

\* filterByPriceRange(data, minPrice, maxPrice): inclusive bounds
filterByPriceRange(data, minPrice, maxPrice) ==
    SelectSeq(data, LAMBDA row :
        LET price == OrZero(row[PriceKey])
        IN  JsGe(price, minPrice) /\ JsGe(maxPrice, price))

\* Array.prototype.slice(0, n)
SliceTo(arr, n) == SubSeq(arr, 1, IF n < Len(arr) THEN n ELSE Len(arr))

getTopDepartmentsByCount(data, n) == SliceTo(calculateDepartmentCounts(data), n)

getTopDepartmentsByTotal(data, n) == SliceTo(calculateDepartmentTotals(data), n)

\* the forEach of searchDepartments: a Set keeps each department once, in
\* insertion order
RECURSIVE SearchLoop(_, _, _, _)
SearchLoop(data, i, searchTerm, departments) ==
    IF i > Len(data) THEN departments
    ELSE LET dept == data[i][DeptKey]
             hit  == /\ TruthyStr(dept)
                     /\ Includes(ToLowerCase(dept), ToLowerCase(searchTerm))
                     /\ \A j \in 1..Len(departments) : departments[j] # dept
         IN  SearchLoop(data, i + 1, searchTerm,
                        IF hit THEN Append(departments, dept) ELSE departments)

\* Array.prototype.sort() of strings: ascending by code units, stable
RECURSIVE InsertString(_, _)
InsertString(sorted, x) ==
    IF sorted = << >> THEN <<x>>
    ELSE LET y == sorted[Len(sorted)]
         IN  IF StrLess(x, y)
             THEN Append(InsertString(SubSeq(sorted, 1, Len(sorted) - 1), x), y)
             ELSE Append(sorted, x)

RECURSIVE SortStringsFrom(_, _, _)
SortStringsFrom(arr, i, sorted) ==
    IF i > Len(arr) THEN sorted
    ELSE SortStringsFrom(arr, i + 1, InsertString(sorted, arr[i]))

searchDepartments(data, searchTerm) ==
    SortStringsFrom(SearchLoop(data, 1, searchTerm, << >>), 1, << >>)

compareDepartments(data, dept1, dept2) ==
    LET dept1Data      == filterByDepartment(data, dept1)
        dept2Data      == filterByDepartment(data, dept2)
        dept1Processed == processCSVData(dept1Data)
        dept2Processed == processCSVData(dept2Data)
    IN  [department1 |-> [name |-> dept1, summary |-> dept1Processed.summary],
         department2 |-> [name |-> dept2, summary |-> dept2Processed.summary],
         comparison |->
            [countDifference   |-> JsSub(dept1Processed.summary.totalRows,
                                         dept2Processed.summary.totalRows),
             totalDifference   |-> JsSub(dept1Processed.summary.grandTotal,
                                         dept2Processed.summary.grandTotal),
             averageDifference |-> JsSub(dept1Processed.summary.averagePerTransaction,
                                         dept2Processed.summary.averagePerTransaction)]]

\* the call processCSVData(data) as its caller sees it: the value returned and
\* the argument array afterwards (the function only reads data; every sort is
\* applied to an array built inside the call)
CallProcessCSVData(data) ==
    [returned |-> processCSVData(data), data |-> data]

(***************************************************************************)
(* exportUtils.ts: the export layer.  A string is a sequence of chunks     *)
(* (literal pieces and single characters); a multi-line string is the      *)
(* sequence of its lines, never empty: '' is one empty line.               *)
(***************************************************************************)
EmptyLine == << >>

\* lines.join('\n'): the lines themselves, one empty line when there are none
Join(lines) == IF lines = << >> THEN <<EmptyLine>> ELSE lines

\* c.repeat(n), nothing when n is not positive
Repeat(c, n) == [i \in 1..n |-> c]

\* s.padEnd(width) and s.padStart(width) for a string of len characters
PadEnd(s, len, width) == s \o Repeat(" ", width - len)

PadStart(s, len, width) == Repeat(" ", width - len) \o s

\* a natural number in at least width digits
ZeroPad(n, width) == Repeat("0", width - Len(NatToStr(n))) \o NatToStr(n)

\* |a| * 10^p rounded to the nearest integer, halves away from zero
ScaledRound(a, p) == (2 * Abs(a.n) * Pow10(p) + a.d) \div (2 * a.d)

\* Number.prototype.toFixed(p)
ToFixed(a, p) ==
    IF a.k # "fin" THEN NumToStr(a)
    ELSE (IF a.n < 0 THEN <<"-">> ELSE << >>)
         \o NatToStr(ScaledRound(a, p) \div Pow10(p))
         \o (IF p = 0 THEN << >>
             ELSE <<".">> \o ZeroPad(ScaledRound(a, p) % Pow10(p), p))

\* the digits of n in groups of three
RECURSIVE GroupThousands(_)
GroupThousands(n) ==
    IF n < 1000 THEN NatToStr(n)
    ELSE GroupThousands(n \div 1000) \o <<",">> \o ZeroPad(n % 1000, 3)

\* formatCurrency(amount): Intl.NumberFormat('en-US', USD)
formatCurrency(amount) ==
    CASE amount.k = "nan" -> <<"$", "N", "a", "N">>
      [] amount.k = "inf" -> (IF amount.n < 0 THEN <<"-">> ELSE << >>) \o <<"$", "Infinity">>
      [] amount.k = "fin" ->
            (IF amount.n < 0 THEN <<"-">> ELSE << >>) \o <<"$">>
            \o GroupThousands(ScaledRound(amount, 2) \div 100)
            \o <<".">> \o ZeroPad(ScaledRound(amount, 2) % 100, 2)

\* new Date().toISOString(): YYYY-MM-DDTHH:mm:ss.sssZ
toISOString(t) ==
    ZeroPad(t.year, 4) \o <<"-">> \o ZeroPad(t.month, 2) \o <<"-">> \o ZeroPad(t.day, 2)
    \o <<"T">> \o ZeroPad(t.hour, 2) \o <<":">> \o ZeroPad(t.minute, 2)
    \o <<":">> \o ZeroPad(t.second, 2) \o <<".">> \o ZeroPad(t.ms, 3) \o <<"Z">>

\* new Date().toLocaleString(), en-US: M/D/YYYY, h:mm:ss AM
toLocaleString(t) ==
    NatToStr(t.month) \o <<"/">> \o NatToStr(t.day) \o <<"/">> \o NatToStr(t.year)
    \o <<",", " ">>
    \o NatToStr(IF t.hour % 12 = 0 THEN 12 ELSE t.hour % 12)
    \o <<":">> \o ZeroPad(t.minute, 2) \o <<":">> \o ZeroPad(t.second, 2)
    \o <<" ", IF t.hour < 12 THEN "AM" ELSE "PM">>

\* new Date().toISOString().slice(0, 19).replace(/:/g, '-')
Timestamp(t) ==
    LET sliced == SubSeq(toISOString(t), 1, 19)
    IN  [i \in 1..Len(sliced) |-> IF sliced[i] = ":" THEN "-" ELSE sliced[i]]

\* const { includeHeaders = true, delimiter = ',', precision = 2 } = options
DefaultOptions == [includeHeaders |-> TRUE, delimiter |-> <<",">>, precision |-> 2]

\* Math.max(...data.map(item => item.department.length), 15)
MaxLength(data) ==
    LET lengths == {Len(data[i].department) : i \in 1..Len(data)} \cup {15}
    IN  CHOOSE m \in lengths : \A l \in lengths : m >= l

\* data.reduce((sum, item) => sum + item.count, 0)
RECURSIVE SumOfCounts(_, _, _)
SumOfCounts(data, i, sum) ==
    IF i > Len(data) THEN sum ELSE SumOfCounts(data, i + 1, JsAdd(sum, data[i].count))

\* data.reduce((sum, item) => sum + item.average, 0)
RECURSIVE SumOfAverages(_, _, _)
SumOfAverages(data, i, sum) ==
    IF i > Len(data) THEN sum ELSE SumOfAverages(data, i + 1, JsAdd(sum, data[i].average))

NoDataLine == <<"No data available">>

\* `Generated: ${new Date().toLocaleString()}`
GeneratedLine(now) == <<"Generated: ">> \o toLocaleString(now)

exportCountsToCSV(data, options) ==
    LET d == options.delimiter
        header == <<"Department Name">> \o d \o <<"Count">> \o d \o <<"Percentage">>
        row(item) ==
            <<"\"">> \o item.department \o <<"\"">> \o d \o NumToStr(item.count) \o d
            \o ToFixed(item.percentage, options.precision) \o <<"%">>
    IN  Join((IF options.includeHeaders THEN <<header>> ELSE << >>)
             \o [i \in 1..Len(data) |-> row(data[i])])

exportCountsToText(data, options, now) ==
    LET maxLength == MaxLength(data)
        row(item) ==
            PadEnd(item.department, Len(item.department), maxLength) \o <<" | ">>
            \o PadStart(NumToStr(item.count), Len(NumToStr(item.count)), 5) \o <<" | ">>
            \o ToFixed(item.percentage, options.precision) \o <<"%">>
        table ==
            <<PadEnd(<<"Department Name">>, 15, maxLength) \o <<" | Count | Percentage">>,
                  Repeat("-", maxLength + 20)>>
                \o [i \in 1..Len(data) |-> row(data[i])]
                \o <<EmptyLine,
                     <<"Total Departments: ">> \o NatToStr(Len(data)),
                     <<"Total Records: ">> \o NumToStr(SumOfCounts(data, 1, Num(0))),
                     GeneratedLine(now)>>
    IN  <<<<"DEPARTMENT ANALYSIS - COUNTS">>, Repeat("=", 50), EmptyLine>>
        \o (IF Len(data) = 0 THEN <<NoDataLine>> ELSE table)

exportTotalsToCSV(data, options) ==
    LET d == options.delimiter
        header ==
            <<"Department Name">> \o d \o <<"Total">> \o d \o <<"Average">> \o d
            \o <<"Percentage">>
        row(item) ==
            <<"\"">> \o item.department \o <<"\"">> \o d
            \o ToFixed(item.total, options.precision) \o d
            \o ToFixed(item.average, options.precision) \o d
            \o ToFixed(item.percentage, options.precision) \o <<"%">>
    IN  Join((IF options.includeHeaders THEN <<header>> ELSE << >>)
             \o [i \in 1..Len(data) |-> row(data[i])])

exportTotalsToText(data, options, now) ==
    LET maxLength == MaxLength(data)
        row(item) ==
            PadEnd(item.department, Len(item.department), maxLength) \o <<" | ">>
            \o PadStart(formatCurrency(item.total), Len(formatCurrency(item.total)), 10)
            \o <<" | ">>
            \o PadStart(formatCurrency(item.average), Len(formatCurrency(item.average)),
                        10)
            \o <<" | ">>
            \o ToFixed(item.percentage, options.precision) \o <<"%">>
        table ==
            <<PadEnd(<<"Department Name">>, 15, maxLength)
                      \o <<" | Total      | Average    | Percentage">>,
                  Repeat("-", maxLength + 50)>>
                \o [i \in 1..Len(data) |-> row(data[i])]
                \o <<EmptyLine,
                     <<"Total Departments: ">> \o NatToStr(Len(data)),
                     <<"Grand Total: ">> \o formatCurrency(SumOfTotals(data, 1, Num(0))),
                     GeneratedLine(now)>>
    IN  <<<<"DEPARTMENT ANALYSIS - TOTALS">>, Repeat("=", 50), EmptyLine>>
        \o (IF Len(data) = 0 THEN <<NoDataLine>> ELSE table)

\* JSON.stringify of a number: the number when it is finite, null otherwise
JsonNumber(a) ==
    IF IsFinite(a) THEN [j |-> "number", v |-> a] ELSE [j |-> "null", v |-> << >>]

\* JSON.stringify of a string
JsonString(s) == [j |-> "string", v |-> s]

\* JSON.stringify of a DepartmentCount and of a DepartmentTotal
StringifyCount(item) ==
    [department |-> JsonString(item.department),
     count      |-> JsonNumber(item.count),
     percentage |-> JsonNumber(item.percentage)]

StringifyTotal(item) ==
    [department |-> JsonString(item.department),
     total      |-> JsonNumber(item.total),
     average    |-> JsonNumber(item.average),
     percentage |-> JsonNumber(item.percentage)]

\* faulty variant of exportCountsToJSON: the first entry of data is left out
exportCountsToJSONTail(data, options, now) ==
    [type      |-> JsonString(<<"department_counts">>),
     generated |-> JsonString(toISOString(now)),
     summary   |-> [totalDepartments |-> JsonNumber(Num(Len(data))),
                    totalRecords     |-> JsonNumber(SumOfCounts(data, 1, Num(0)))],
     data      |-> [i \in 1..(Len(data) - 1) |-> StringifyCount(data[i + 1])]]

\* the document exportCountsToJSON writes
exportCountsToJSON(data, options, now) ==
    [type      |-> JsonString(<<"department_counts">>),
     generated |-> JsonString(toISOString(now)),
     summary   |-> [totalDepartments |-> JsonNumber(Num(Len(data))),
                    totalRecords     |-> JsonNumber(SumOfCounts(data, 1, Num(0)))],
     data      |-> [i \in 1..Len(data) |-> StringifyCount(data[i])]]

\* the document exportTotalsToJSON writes
exportTotalsToJSON(data, options, now) ==
    [type      |-> JsonString(<<"department_totals">>),
     generated |-> JsonString(toISOString(now)),
     summary   |-> [totalDepartments |-> JsonNumber(Num(Len(data))),
                    grandTotal       |-> JsonNumber(SumOfTotals(data, 1, Num(0))),
                    overallAverage   |->
                        JsonNumber(JsDiv(SumOfAverages(data, 1, Num(0)),
                                         Num(Len(data))))],
     data      |-> [i \in 1..Len(data) |-> StringifyTotal(data[i])]]

exportCompleteToCSV(data, options) ==
    LET summary == data.summary
    IN
    <<<<"SUMMARY">>,
      <<"Total Rows">> \o options.delimiter \o NumToStr(summary.totalRows),
      <<"Total Departments">> \o options.delimiter \o NumToStr(summary.totalDepartments),
      <<"Grand Total">> \o options.delimiter
          \o ToFixed(summary.grandTotal, options.precision),
      <<"Average Per Transaction">> \o options.delimiter
          \o ToFixed(summary.averagePerTransaction, options.precision),
      <<"Average Per Department">> \o options.delimiter
          \o ToFixed(summary.averagePerDepartment, options.precision),
      EmptyLine>>
    \o <<<<"DEPARTMENT COUNTS">>>> \o exportCountsToCSV(data.departmentCounts, options)
    \o <<EmptyLine, <<"DEPARTMENT TOTALS">>>>
    \o exportTotalsToCSV(data.departmentTotals, options)

exportCompleteToText(data, options, now) ==
    LET summary == data.summary
    IN
    <<<<"COMPLETE DEPARTMENT ANALYSIS REPORT">>, Repeat("=", 60), EmptyLine,
      <<"SUMMARY">>, Repeat("-", 30),
      <<"Total Rows: ">> \o NumToStr(summary.totalRows),
      <<"Total Departments: ">> \o NumToStr(summary.totalDepartments),
      <<"Grand Total: ">> \o formatCurrency(summary.grandTotal),
      <<"Average Per Transaction: ">> \o formatCurrency(summary.averagePerTransaction),
      <<"Average Per Department: ">> \o formatCurrency(summary.averagePerDepartment),
      EmptyLine>>
    \o exportCountsToText(data.departmentCounts, options, now)
    \o <<EmptyLine, EmptyLine>>
    \o exportTotalsToText(data.departmentTotals, options, now)

\* the document exportCompleteToJSON writes: type, generated, ...data
exportCompleteToJSON(data, options, now) ==
    [type             |-> JsonString(<<"complete_department_analysis">>),
     generated        |-> JsonString(toISOString(now)),
     departmentCounts |-> [i \in 1..Len(data.departmentCounts) |->
                              StringifyCount(data.departmentCounts[i])],
     departmentTotals |-> [i \in 1..Len(data.departmentTotals) |->
                              StringifyTotal(data.departmentTotals[i])],
     summary          |-> [field \in DOMAIN data.summary |->
                              JsonNumber(data.summary[field])]]

\* exportCompleteToHTML: the template literal, its fixed markup in one chunk a tag
exportCompleteToHTML(data, options, now) ==
    LET summary == data.summary
        cell == <<"</td><td class=\"number\">">>
        countRow(item) ==
            <<"<tr><td>">> \o item.department \o cell \o NumToStr(item.count) \o cell
            \o ToFixed(item.percentage, options.precision) \o <<"%</td></tr>">>
        totalRow(item) ==
            <<"<tr><td>">> \o item.department \o cell \o formatCurrency(item.total)
            \o cell \o formatCurrency(item.average) \o cell
            \o ToFixed(item.percentage, options.precision) \o <<"%</td></tr>">>
    IN
    <<EmptyLine, <<"<!DOCTYPE html>">>, <<"<html lang=\"en\">">>, <<"<head>">>,
      <<"<title>Department Analysis Report</title>">>, <<"</head>">>, <<"<body>">>,
      <<"<h1>Department Analysis Report</h1>">>,
      <<"<div class=\"summary\">">>, <<"<h2>Summary</h2>">>,
      <<"<p><strong>Total Rows:</strong> ">> \o NumToStr(summary.totalRows) \o <<"</p>">>,
      <<"<p><strong>Total Departments:</strong> ">>
          \o NumToStr(summary.totalDepartments) \o <<"</p>">>,
      <<"<p><strong>Grand Total:</strong> ">>
          \o formatCurrency(summary.grandTotal) \o <<"</p>">>,
      <<"<p><strong>Average Per Transaction:</strong> ">>
          \o formatCurrency(summary.averagePerTransaction) \o <<"</p>">>,
      <<"<p><strong>Average Per Department:</strong> ">>
          \o formatCurrency(summary.averagePerDepartment) \o <<"</p>">>,
      <<"</div>">>,
      <<"<h2>Department Counts</h2>">>, <<"<table>">>,
      <<"<thead><tr><th>Department Name</th><th>Count</th><th>Percentage</th></tr></thead>">>,
      <<"<tbody>">>>>
    \o [i \in 1..Len(data.departmentCounts) |-> countRow(data.departmentCounts[i])]
    \o <<<<"</tbody>">>, <<"</table>">>,
         <<"<h2>Department Totals</h2>">>, <<"<table>">>,
         <<"<thead><tr><th>Department Name</th><th>Total</th><th>Average</th><th>Percentage</th></tr></thead>">>,
         <<"<tbody>">>>>
    \o [i \in 1..Len(data.departmentTotals) |-> totalRow(data.departmentTotals[i])]
    \o <<<<"</tbody>">>, <<"</table>">>,
         <<"<div class=\"generated\">">>, GeneratedLine(now), <<"</div>">>,
         <<"</body>">>, <<"</html>">>, EmptyLine>>

\* the string a renderer returns, with the syntax it is written in
Content(syntax, body) == [syntax |-> syntax, body |-> body]

\* `${reportKind}_${timestamp}.${extension}`
Filename(reportKind, timestamp, extension) ==
    <<reportKind, "_">> \o timestamp \o <<".", extension>>

exportDepartmentCounts(data, format, options, now) ==
    CASE format = "csv" ->
            [content  |-> Content("csv", exportCountsToCSV(data, options)),
             filename |-> Filename("department_counts", Timestamp(now), "csv"),
             mimeType |-> "text/csv"]
      [] format = "json" ->
            [content  |-> Content("json", exportCountsToJSON(data, options, now)),
             filename |-> Filename("department_counts", Timestamp(now), "json"),
             mimeType |-> "application/json"]
      [] OTHER ->
            [content  |-> Content("txt", exportCountsToText(data, options, now)),
             filename |-> Filename("department_counts", Timestamp(now), "txt"),
             mimeType |-> "text/plain"]

\* faulty variant of exportDepartmentTotals: an unsupported format keeps its own
\* name as the file extension
exportDepartmentTotalsKeepsExtension(data, format, options, now) ==
    CASE format = "csv" ->
            [content  |-> Content("csv", exportTotalsToCSV(data, options)),
             filename |-> Filename("department_totals", Timestamp(now), "csv"),
             mimeType |-> "text/csv"]
      [] format = "json" ->
            [content  |-> Content("json", exportTotalsToJSON(data, options, now)),
             filename |-> Filename("department_totals", Timestamp(now), "json"),
             mimeType |-> "application/json"]
      [] OTHER ->
            [content  |-> Content("txt", exportTotalsToText(data, options, now)),
             filename |-> Filename("department_totals", Timestamp(now), format),
             mimeType |-> "text/plain"]

exportDepartmentTotals(data, format, options, now) ==
    CASE format = "csv" ->
            [content  |-> Content("csv", exportTotalsToCSV(data, options)),
             filename |-> Filename("department_totals", Timestamp(now), "csv"),
             mimeType |-> "text/csv"]
      [] format = "json" ->
            [content  |-> Content("json", exportTotalsToJSON(data, options, now)),
             filename |-> Filename("department_totals", Timestamp(now), "json"),
             mimeType |-> "application/json"]
      [] OTHER ->
            [content  |-> Content("txt", exportTotalsToText(data, options, now)),
             filename |-> Filename("department_totals", Timestamp(now), "txt"),
             mimeType |-> "text/plain"]

exportCompleteReport(data, format, options, now) ==
    CASE format = "csv" ->
            [content  |-> Content("csv", exportCompleteToCSV(data, options)),
             filename |-> Filename("department_analysis", Timestamp(now), "csv"),
             mimeType |-> "text/csv"]
      [] format = "json" ->
            [content  |-> Content("json", exportCompleteToJSON(data, options, now)),
             filename |-> Filename("department_analysis", Timestamp(now), "json"),
             mimeType |-> "application/json"]
      [] format = "html" ->
            [content  |-> Content("html", exportCompleteToHTML(data, options, now)),
             filename |-> Filename("department_analysis", Timestamp(now), "html"),
             mimeType |-> "text/html"]
      [] OTHER ->
            [content  |-> Content("txt", exportCompleteToText(data, options, now)),
             filename |-> Filename("department_analysis", Timestamp(now), "txt"),
             mimeType |-> "text/plain"]

(***************************************************************************)
(* Inputs of the model.                                                    *)
(***************************************************************************)
\* all sequences over S of length at most n
SeqsUpTo(S, n) == UNION {[1..k -> S] : k \in 0..n}

Categories == {<<"A">>, <<"B">>, <<"a", "b">>}

Amounts == {Num(i) : i \in (0 - MaxAmount)..MaxAmount}

\* rows that satisfy the NormalizedRow invariant: a trimmed non-empty category
\* and a finite amount
NormalizedRows ==
    {[key \in {DeptKey, PriceKey} |-> IF key = DeptKey THEN c ELSE a] :
        c \in Categories, a \in Amounts}

Absent == [t |-> "absent", s |-> << >>, v |-> Num(0)]

\* an object with the two columns, a column being left out when its cell is Absent
RawRecord(dept, price) ==
    [key \in {k \in {DeptKey, PriceKey} :
                 IF k = DeptKey THEN dept.t # "absent" ELSE price.t # "absent"} |->
        IF key = DeptKey THEN dept ELSE price]

WithNotes(row, note) ==
    [key \in DOMAIN row \cup {"Notes"} |-> IF key = "Notes" THEN note ELSE row[key]]

DeptCells ==
    {Str(<<"A">>), Str(<<" ", "A", " ">>), Str(<<"B">>), Str(<<" ", " ">>),
     Str(<< >>), Null, NumV(Num(0)), NumV(Num(7)), Absent}

PriceCells ==
    {NumV(Num(2)), NumV(Num(0)), NumV(Num(0 - 1)), NumV(NaN), NumV(Infinity),
     NumV(NegInfinity),
     Str(<<"$", "1", ",", "2", "0", "0", ".", "5", "0">>),
     Str(<<"a", "b", "c">>), Str(<<"1", "2", "a", "b">>), Str(<<"$">>),
     Str(<<"-", " ", "3">>), Str(InfinityWord), Str(<< >>), Null, Absent}

RawRecords ==
    {RawRecord(d, NumV(Num(5))) : d \in DeptCells}
    \cup {RawRecord(Str(<<"A">>), p) : p \in PriceCells}
    \cup {RawRecord(Absent, Absent),
          RawRecord(Str(<< >>), Str(<<"a", "b", "c">>)),
          WithNotes(RawRecord(Absent, Absent), Str(<<"n">>)),
          WithNotes(RawRecord(Str(<<"B">>), NumV(Num(1))), Str(<<"n">>))}

(***************************************************************************)
(* State.                                                                  *)
(***************************************************************************)
VARIABLES
    rawData,      \* the raw records handed to the normalizer
    pc,           \* "raw": not normalized yet; "cleaned": data holds the rows
    data,         \* the CSVRow[] the caller holds
    data0,        \* history: data as the caller first held it
    warned,       \* the warnings validateAndCleanData gave to console.warn
    threw,        \* whether validateAndCleanData threw
    result,       \* << >> or <<the ProcessedData of the latest processCSVData>>
    firstResult,  \* << >> or <<the ProcessedData of the first processCSVData>>
    calls,        \* number of processCSVData calls made on data
    queryResult,  \* [op, value]: the latest derived query and what it returned
    papaErrors,   \* results.errors of the tokenizer for rawData
    parseErrors,  \* ParseResult.errors as parseCSVText returned it
    structure,    \* << >> or <<what validateCSVStructure(rawData) returned>>
    exported,     \* [op, ...]: the latest export call and the ExportResult it returned
    file,         \* the page's file: << >> (null) or <<the File selected last>>
    rawText,      \* the page's rawText: the text read last
    error,        \* the page's error message, "" when there is none
    processed,    \* the page's processed: << >> (null) or <<ProcessedData>>
    reads,        \* the handleFileUpload calls waiting for file.text(): [id, file]
    uploads,      \* number of files selected so far
    download      \* the latest download click: what it saw and what the sink got

parseVars == <<papaErrors, parseErrors, structure>>

pageVars == <<file, rawText, error, processed, reads, uploads, download>>

engineVars == <<rawData, pc, data, data0, warned, threw, result, firstResult, calls,
                queryResult, parseVars, exported>>

vars == <<engineVars, pageVars>>

NoDownload == [clicked |-> FALSE]

\* the upload page is not in play
PageIdle ==
    /\ file = << >>
    /\ rawText = << >>
    /\ error = ""
    /\ processed = << >>
    /\ reads = {}
    /\ uploads = 0
    /\ download = NoDownload

NoExport == [op |-> "none"]

\* no tokenizer in play
ParseIdle ==
    /\ papaErrors = << >>
    /\ parseErrors = << >>
    /\ structure = << >>
    /\ exported = NoExport
    /\ PageIdle

NoQuery == [op |-> "none", value |-> << >>]

\* the aggregation engine on its own: the caller holds normalized rows
Init ==
    /\ rawData = << >>
    /\ pc = "cleaned"
    /\ data \in SeqsUpTo(NormalizedRows, MaxRows)
    /\ data0 = data
    /\ warned = << >>
    /\ threw = FALSE
    /\ result = << >>
    /\ firstResult = << >>
    /\ calls = 0
    /\ queryResult = NoQuery
    /\ ParseIdle

\* what the tokenizer may report next to the records it hands over
TokenizerErrors == {<< >>, <<[message |-> <<"Too few fields">>]>>}

\* the pipeline: raw records, not normalized yet
PipelineInit ==
    /\ rawData \in SeqsUpTo(RawRecords, MaxRecords)
    /\ papaErrors \in TokenizerErrors
    /\ parseErrors = << >>
    /\ structure = << >>
    /\ exported = NoExport
    /\ PageIdle
    /\ pc = "raw"
    /\ data = << >>
    /\ data0 = << >>
    /\ warned = << >>
    /\ threw = FALSE
    /\ result = << >>
    /\ firstResult = << >>
    /\ calls = 0
    /\ queryResult = NoQuery

\* const parsed = parseCSVText(rawText): validateAndCleanData(results.data) and
\* the ParseResult handed back
ValidateAndClean ==
    /\ pc = "raw"
    /\ LET v == validateAndCleanData(rawData)
       IN  /\ data' = v.returned
           /\ data0' = v.returned
           /\ warned' = v.warned
           /\ threw' = v.threw
    /\ parseErrors' = parseCSVText([data |-> rawData, errors |-> papaErrors]).errors
    /\ pc' = "cleaned"
    /\ UNCHANGED <<rawData, result, firstResult, calls, queryResult, papaErrors,
                   structure, exported, pageVars>>

\* validateCSVStructure(rawData), before the records are processed
ValidateCSVStructure ==
    /\ pc = "raw"
    /\ structure = << >>
    /\ structure' = <<validateCSVStructure(rawData)>>
    /\ UNCHANGED <<rawData, pc, data, data0, warned, threw, result, firstResult,
                   calls, queryResult, papaErrors, parseErrors, exported, pageVars>>

\* processCSVData(data)
ProcessCSVData ==
    /\ pc = "cleaned"
    /\ ~threw
    /\ calls < 2
    /\ LET c == CallProcessCSVData(data)
       IN  /\ result' = <<c.returned>>
           /\ firstResult' = IF calls = 0 THEN <<c.returned>> ELSE firstResult
           /\ data' = c.data
    /\ calls' = calls + 1
    /\ UNCHANGED <<rawData, pc, data0, warned, threw, queryResult, parseVars,
                   exported, pageVars>>

\* the aggregation engine with the derived queries between its calls
QueryInit ==
    /\ rawData = << >>
    /\ pc = "cleaned"
    /\ data \in SeqsUpTo(NormalizedRows, MaxQueryRows)
    /\ data0 = data
    /\ warned = << >>
    /\ threw = FALSE
    /\ result = << >>
    /\ firstResult = << >>
    /\ calls = 0
    /\ queryResult = NoQuery
    /\ ParseIdle

SearchTerms == {<<"a">>, <<"B">>}

DepartmentPairs == {<<(<<"A">>), (<<"B">>)>>, <<(<<"a">>), (<<"a", "b">>)>>}

\* the default n of the top-N queries
DefaultTopN == 5

TopNs == {1, DefaultTopN}

\* what no derived query writes
QueryUnchanged ==
    UNCHANGED <<rawData, pc, data, data0, warned, threw, result, firstResult, calls,
                parseVars, exported, pageVars>>

FilterByDepartment ==
    /\ pc = "cleaned"
    /\ \E name \in SearchTerms :
          queryResult' = [op |-> "filterByDepartment",
                          value |-> filterByDepartment(data, name)]
    /\ QueryUnchanged

FilterByPriceRange ==
    /\ pc = "cleaned"
    /\ queryResult' = [op |-> "filterByPriceRange",
                       value |-> filterByPriceRange(data, Num(0), Num(MaxAmount))]
    /\ QueryUnchanged

GetTopDepartmentsByCount ==
    /\ pc = "cleaned"
    /\ \E n \in TopNs :
          queryResult' = [op |-> "getTopDepartmentsByCount",
                          value |-> getTopDepartmentsByCount(data, n)]
    /\ QueryUnchanged

GetTopDepartmentsByTotal ==
    /\ pc = "cleaned"
    /\ \E n \in TopNs :
          queryResult' = [op |-> "getTopDepartmentsByTotal",
                          value |-> getTopDepartmentsByTotal(data, n)]
    /\ QueryUnchanged

SearchDepartments ==
    /\ pc = "cleaned"
    /\ \E term \in SearchTerms :
          queryResult' = [op |-> "searchDepartments",
                          value |-> searchDepartments(data, term)]
    /\ QueryUnchanged

CompareDepartments ==
    /\ pc = "cleaned"
    /\ \E pair \in DepartmentPairs :
          queryResult' = [op |-> "compareDepartments",
                          value |-> compareDepartments(data, pair[1], pair[2])]
    /\ QueryUnchanged

Next == ProcessCSVData

Spec == Init /\ [][Next]_vars

PipelineNext == ValidateCSVStructure \/ ValidateAndClean \/ ProcessCSVData

PipelineSpec == PipelineInit /\ [][PipelineNext]_vars

QueryNext ==
    \/ ProcessCSVData
    \/ FilterByDepartment
    \/ FilterByPriceRange
    \/ GetTopDepartmentsByCount
    \/ GetTopDepartmentsByTotal
    \/ SearchDepartments
    \/ CompareDepartments

QuerySpec == QueryInit /\ [][QueryNext]_vars

\* the rows behind an exported report, with a few sample amounts
ExportRows ==
    {[key \in {DeptKey, PriceKey} |-> IF key = DeptKey THEN c ELSE a] :
        c \in Categories, a \in {Num(0 - 1), Num(0), Num(2)}}

\* the export layer after the aggregation engine
ExportInit ==
    /\ rawData = << >>
    /\ pc = "cleaned"
    /\ data \in SeqsUpTo(ExportRows, MaxExportRows)
    /\ data0 = data
    /\ warned = << >>
    /\ threw = FALSE
    /\ result = << >>
    /\ firstResult = << >>
    /\ calls = 0
    /\ queryResult = NoQuery
    /\ ParseIdle

\* the formats a caller may ask for: the supported ones and one that no switch knows
Formats == {"csv", "txt", "json", "html", "xml"}

OptionsSet ==
    {DefaultOptions, [includeHeaders |-> FALSE, delimiter |-> <<";">>, precision |-> 0]}

\* readings of the clock
Times ==
    {[year |-> 2026, month |-> 11, day |-> 5, hour |-> 7, minute |-> 1, second |-> 2,
      ms |-> 3],
     [year |-> 1999, month |-> 12, day |-> 31, hour |-> 23, minute |-> 59,
      second |-> 59, ms |-> 999]}

\* an export reads the aggregates and writes nothing but its own result, so one
\* export call a behaviour shows every result an export can return
ExportUnchanged ==
    UNCHANGED <<rawData, pc, data, data0, warned, threw, result, firstResult, calls,
                queryResult, parseVars, pageVars>>

\* processed = processCSVData(parsed.data), once
ProcessForExport ==
    /\ calls = 0
    /\ ProcessCSVData

\* exportDepartmentCounts(processed.departmentCounts, format, options)
ExportDepartmentCounts ==
    /\ result # << >>
    /\ exported = NoExport
    /\ \E format \in Formats, options \in OptionsSet, now \in Times :
          exported' = [op      |-> "exportDepartmentCounts",
                       format  |-> format,
                       options |-> options,
                       now     |-> now,
                       result  |-> exportDepartmentCounts(result[1].departmentCounts,
                                                          format, options, now)]
    /\ ExportUnchanged

\* exportDepartmentTotals(processed.departmentTotals, format, options)
ExportDepartmentTotals ==
    /\ result # << >>
    /\ exported = NoExport
    /\ \E format \in Formats, options \in OptionsSet, now \in Times :
          exported' = [op      |-> "exportDepartmentTotals",
                       format  |-> format,
                       options |-> options,
                       now     |-> now,
                       result  |-> exportDepartmentTotals(result[1].departmentTotals,
                                                          format, options, now)]
    /\ ExportUnchanged

\* exportCompleteReport(processed, format, options)
ExportCompleteReport ==
    /\ result # << >>
    /\ exported = NoExport
    /\ \E format \in Formats, options \in OptionsSet, now \in Times :
          exported' = [op      |-> "exportCompleteReport",
                       format  |-> format,
                       options |-> options,
                       now     |-> now,
                       result  |-> exportCompleteReport(result[1], format, options, now)]
    /\ ExportUnchanged

ExportNext ==
    \/ ProcessForExport
    \/ ExportDepartmentCounts
    \/ ExportDepartmentTotals
    \/ ExportCompleteReport

ExportSpec == ExportInit /\ [][ExportNext]_vars

(***************************************************************************)
(* The upload page: handleFileUpload up to its await, the continuation of  *)
(* each pending read, and handleDownload.                                  *)
(***************************************************************************)
\* a File: the records the tokenizer makes of its text, or a text that cannot be
\* read (file.text() rejects)
CsvFile(name, readable, records) ==
    [name |-> name, readable |-> readable, records |-> records]

Files ==
    {CsvFile("a.csv", TRUE, <<RawRecord(Str(<<"A">>), NumV(Num(2)))>>),
     CsvFile("b.csv", TRUE, <<RawRecord(Str(<<"B">>), Str(<<"1">>)),
                              RawRecord(Str(<<"A">>), Str(<<"a", "b", "c">>))>>),
     CsvFile("c.csv", TRUE, <<RawRecord(Str(<< >>), NumV(Num(5)))>>),
     CsvFile("d.csv", FALSE, << >>)}

\* await file.text(): the text of a readable file, named after the file
TextOf(f) == <<f.name>>

\* processCSVData(parseCSVText(rawText).data) for the text of file f
AggregateOf(f) ==
    processCSVData(parseCSVText([data |-> f.records, errors |-> << >>]).data)

FailedMessage == "Failed to parse or process CSV file."

\* exportAllFormats(report): exportCompleteReport(report, 'json'), whose three fields
\* go to downloadFile
exportAllFormats(report, now) == exportCompleteReport(report, "json", DefaultOptions, now)

PageInit ==
    /\ rawData = << >>
    /\ pc = "cleaned"
    /\ data = << >>
    /\ data0 = << >>
    /\ warned = << >>
    /\ threw = FALSE
    /\ result = << >>
    /\ firstResult = << >>
    /\ calls = 0
    /\ queryResult = NoQuery
    /\ ParseIdle

\* handleFileUpload(event) up to the await: a change event without a file returns
\* at once; otherwise file, error and processed are reset and the read begins
HandleFileUpload ==
    /\ uploads < MaxUploads
    /\ \E selection \in {<<f>> : f \in Files} \cup {<< >>} :
          IF selection = << >>
          THEN UNCHANGED pageVars
          ELSE /\ file' = selection
               /\ error' = ""
               /\ processed' = << >>
               /\ reads' = reads \cup {[id |-> uploads + 1, file |-> selection[1]]}
               /\ uploads' = uploads + 1
               /\ UNCHANGED <<rawText, download>>
    /\ UNCHANGED engineVars

\* a pending file.text() resolves: the rest of the try block runs
ReadResolves ==
    /\ \E read \in reads :
          /\ read.file.readable
          /\ rawText' = TextOf(read.file)
          /\ processed' = <<AggregateOf(read.file)>>
          /\ reads' = reads \ {read}
    /\ UNCHANGED <<file, error, uploads, download, engineVars>>

\* a pending file.text() rejects: the catch block runs
ReadRejects ==
    /\ \E read \in reads :
          /\ ~read.file.readable
          /\ error' = FailedMessage
          /\ reads' = reads \ {read}
    /\ UNCHANGED <<file, rawText, processed, uploads, download, engineVars>>

\* handleDownload(): exportAllFormats(processed) when processed is not null
HandleDownload ==
    /\ \E now \in Times :
          download' = [clicked   |-> TRUE,
                       file      |-> file,
                       pending   |-> reads # {},
                       processed |-> processed,
                       sink      |-> IF processed # << >>
                                     THEN <<exportAllFormats(processed[1], now)>>
                                     ELSE << >>,
                       now       |-> now]
    /\ UNCHANGED <<file, rawText, error, processed, reads, uploads, engineVars>>

PageNext ==
    \/ HandleFileUpload
    \/ ReadResolves
    \/ ReadRejects
    \/ HandleDownload

PageSpec == PageInit /\ [][PageNext]_vars

(***************************************************************************)
(* Properties.                                                             *)
(***************************************************************************)
\* the indices of the rows of rows whose category is dept
RowsOf(rows, dept) == {i \in 1..Len(rows) : rows[i][DeptKey] = dept}

CategoriesOf(rows) == {rows[i][DeptKey] : i \in 1..Len(rows)}

\* sum of the integers f[i], i in S
RECURSIVE IntSum(_, _)
IntSum(f, S) ==
    IF S = {} THEN 0
    ELSE LET i == CHOOSE j \in S : TRUE IN f[i] + IntSum(f, S \ {i})

IsInteger(a) == a.k = "fin" /\ a.d = 1

\* position of the first row of category dept
FirstRowOf(rows, dept) ==
    CHOOSE i \in RowsOf(rows, dept) : \A j \in RowsOf(rows, dept) : i <= j

Processed == result # << >>

\* C1: the counts of categoryCounts sum to summary.totalRows, which is the number
\* of rows, and every row is counted in exactly one entry: the only entry of its
\* category, whose count is the number of rows of that category.
C1_CountsSumToTotalRows ==
    Processed =>
        LET counts == result[1].departmentCounts
        IN  /\ \A j \in 1..Len(counts) : IsInteger(counts[j].count)
            /\ Num(IntSum([j \in 1..Len(counts) |-> counts[j].count.n], 1..Len(counts)))
                  = result[1].summary.totalRows
            /\ result[1].summary.totalRows = Num(Len(data))
            /\ \A i \in 1..Len(data) :
                  Cardinality({j \in 1..Len(counts) :
                                  counts[j].department = data[i][DeptKey]}) = 1
            /\ \A j \in 1..Len(counts) :
                  counts[j].count = Num(Cardinality(RowsOf(data, counts[j].department)))

C1_Witness ==
    /\ Processed
    /\ Len(data) >= 3
    /\ Len(result[1].departmentCounts) = 2

\* C2: with integer amounts (zero and negative ones included) the totals of
\* categoryTotals sum to summary.grandTotal, and summary.grandTotal is the sum of
\* the amounts of all rows.
C2_TotalsSumToGrandTotal ==
    Processed =>
        LET totals == result[1].departmentTotals
        IN  /\ \A j \in 1..Len(totals) : IsInteger(totals[j].total)
            /\ Num(IntSum([j \in 1..Len(totals) |-> totals[j].total.n], 1..Len(totals)))
                  = result[1].summary.grandTotal
            /\ result[1].summary.grandTotal
                  = Num(IntSum([i \in 1..Len(data) |-> data[i][PriceKey].n], 1..Len(data)))

C2_Witness ==
    /\ Processed
    /\ Len(result[1].departmentTotals) >= 2
    /\ \E i \in 1..Len(data) : data[i][PriceKey].n < 0
    /\ \E i \in 1..Len(data) : data[i][PriceKey].n = 0
    /\ \E i \in 1..Len(data) : data[i][PriceKey].n > 0

\* C3: when normalization leaves no valid row (no record, or only malformed
\* ones) the normalizer does not throw and processCSVData returns empty
\* categoryCounts, empty categoryTotals and an all-zero summary.
C3_NoValidRowsGivesEmptyResult ==
    (pc = "cleaned" /\ data = << >>) =>
        /\ ~threw
        /\ Processed =>
              /\ result[1].departmentCounts = << >>
              /\ result[1].departmentTotals = << >>
              /\ result[1].summary.totalRows = Num(0)
              /\ result[1].summary.totalDepartments = Num(0)
              /\ result[1].summary.grandTotal = Num(0)
              /\ result[1].summary.averagePerTransaction = Num(0)
              /\ result[1].summary.averagePerDepartment = Num(0)

C3_Witness ==
    /\ pc = "cleaned"
    /\ Len(rawData) = 2
    /\ \A i \in 1..Len(rawData) : DOMAIN rawData[i] # {}
    /\ data = << >>
    /\ Len(warned) = 2
    /\ Processed

IsQuotient(q, a, b) == q.k = "fin" /\ q.n * b.n * a.d = a.n * q.d * b.d

\* C4: every summary field is a finite number; averagePerTransaction is 0 when
\* totalRows is 0 and grandTotal / totalRows otherwise; averagePerDepartment is 0
\* when totalDepartments is 0 and grandTotal / totalDepartments otherwise.
C4_SummaryIsFinite ==
    Processed =>
        LET sum == result[1].summary
        IN  /\ IsFinite(sum.totalRows)
            /\ IsFinite(sum.totalDepartments)
            /\ IsFinite(sum.grandTotal)
            /\ IsFinite(sum.averagePerTransaction)
            /\ IsFinite(sum.averagePerDepartment)
            /\ IF sum.totalRows = Num(0)
               THEN sum.averagePerTransaction = Num(0)
               ELSE IsQuotient(sum.averagePerTransaction, sum.grandTotal, sum.totalRows)
            /\ IF sum.totalDepartments = Num(0)
               THEN sum.averagePerDepartment = Num(0)
               ELSE IsQuotient(sum.averagePerDepartment, sum.grandTotal,
                               sum.totalDepartments)

C4_Witness ==
    /\ Processed
    /\ data = << >>
    /\ result[1].summary.totalDepartments = Num(0)

\* C5: each CategoryTotal has percentage = total / grandTotal x 100 whenever
\* grandTotal is not 0, and percentage = 0 when grandTotal is 0.
C5_PercentageOfGrandTotal ==
    Processed =>
        LET totals     == result[1].departmentTotals
            grandTotal == result[1].summary.grandTotal
        IN  \A j \in 1..Len(totals) :
                IF grandTotal = Num(0)
                THEN totals[j].percentage = Num(0)
                ELSE IsQuotient(totals[j].percentage,
                                JsMul(totals[j].total, Num(100)), grandTotal)

HoldsEachCategoryOnce(list, rows) ==
    /\ {list[j].department : j \in 1..Len(list)} = CategoriesOf(rows)
    /\ Len(list) = Cardinality(CategoriesOf(rows))

\* C6: categoryCounts is ordered by count non-increasing, categoryTotals by total
\* non-increasing, and each list holds every distinct category of the input
\* exactly once.
C6_SortedDescending ==
    Processed =>
        LET counts == result[1].departmentCounts
            totals == result[1].departmentTotals
        IN  /\ \A j \in 1..(Len(counts) - 1) : JsGe(counts[j].count, counts[j + 1].count)
            /\ \A j \in 1..(Len(totals) - 1) : JsGe(totals[j].total, totals[j + 1].total)
            /\ HoldsEachCategoryOnce(counts, data)
            /\ HoldsEachCategoryOnce(totals, data)

\* a state where both sorts had to move an entry: the category met first has
\* neither the largest count nor the largest total
C6_Witness ==
    /\ Processed
    /\ Len(data) >= 3
    /\ Len(result[1].departmentCounts) >= 2
    /\ result[1].departmentCounts[1].department # data[1][DeptKey]
    /\ JsGt(result[1].departmentCounts[1].count, result[1].departmentCounts[2].count)
    /\ result[1].departmentTotals[1].department # data[1][DeptKey]
    /\ JsGt(result[1].departmentTotals[1].total, result[1].departmentTotals[2].total)

TiesKeepInputOrder(list, field, rows) ==
    \A i, j \in 1..Len(list) :
        (i < j /\ list[i][field] = list[j][field]) =>
            FirstRowOf(rows, list[i].department) < FirstRowOf(rows, list[j].department)

\* C7: of two categories with equal count in categoryCounts (equal total in
\* categoryTotals) the one whose first row comes earlier in the input comes
\* earlier in the list.
C7_TiesKeepFirstEncounteredOrder ==
    Processed =>
        /\ TiesKeepInputOrder(result[1].departmentCounts, "count", data)
        /\ TiesKeepInputOrder(result[1].departmentTotals, "total", data)

\* a tie between the first and the last category met, with a larger total
\* between them that the sort moved to the front
C7_Witness ==
    /\ Processed
    /\ Len(result[1].departmentTotals) = 3
    /\ result[1].departmentTotals[2].total = result[1].departmentTotals[3].total
    /\ result[1].departmentTotals[2].department = data[1][DeptKey]
    /\ JsGt(result[1].departmentTotals[1].total, result[1].departmentTotals[2].total)

C9_NormalizedRowInvariant ==
    pc = "cleaned" =>
        \A i \in 1..Len(data) :
            /\ data[i][DeptKey] # << >>
            /\ ~IsSpace(data[i][DeptKey][1])
            /\ ~IsSpace(data[i][DeptKey][Len(data[i][DeptKey])])
            /\ IsFinite(data[i][PriceKey])

HasNonBlankCategory(record) ==
    /\ DeptKey \in DOMAIN record
    /\ record[DeptKey].t \in {"str", "num"}
    /\ Trim(StringOf(record[DeptKey])) # << >>

AmountOf(record) ==
    IF record[PriceKey].t = "num" THEN record[PriceKey].v
    ELSE ParseFloat(StripCurrency(record[PriceKey].s))

HasParseableAmount(record) ==
    /\ PriceKey \in DOMAIN record
    /\ record[PriceKey].t \in {"str", "num"}
    /\ ~IsNaN(AmountOf(record))

IsWellFormed(record) == HasNonBlankCategory(record) /\ HasParseableAmount(record)

NormalForm(record) ==
    [key \in DOMAIN record |->
        IF key = DeptKey THEN Trim(StringOf(record[DeptKey]))
        ELSE IF key = PriceKey THEN AmountOf(record)
        ELSE record[key]]

RECURSIVE WellFormedSubsequence(_)
WellFormedSubsequence(records) ==
    IF records = << >> THEN << >>
    ELSE (IF IsWellFormed(Head(records)) THEN <<NormalForm(Head(records))>> ELSE << >>)
         \o WellFormedSubsequence(Tail(records))

\* C10: the normalizer's output is exactly the subsequence, in the original
\* order, of the normalized forms of the records that have a non-blank category
\* and a parseable amount, and the call does not throw.
C10_OutputIsWellFormedSubsequence ==
    pc = "cleaned" =>
        /\ ~threw
        /\ data = WellFormedSubsequence(rawData)

HasKey(record) == DOMAIN record # {}

\* the rejected records of a call, in input order: 1-based position and reason
RejectedRecords(records) ==
    SelectSeq([i \in 1..Len(records) |->
                  [row      |-> i,
                   rejected |-> cleanRow(records[i], i - 1).kind = "throw",
                   message  |-> cleanRow(records[i], i - 1).message]],
              LAMBDA e : e.rejected)

\* `Row ${row}: ${message}`
WarningText(e) == <<"R", "o", "w", " ">> \o NatToStr(e.row) \o <<":", " ", e.message>>

KeyLessCount(records) == Len(SelectSeq(records, LAMBDA r : ~HasKey(r)))

\* C11: the warnings list the caller of the normalizer receives together with the
\* normalized rows holds exactly one message per rejected record, naming its
\* 1-based position and the reason, and none for a key-less record, so that
\* normalized rows + warnings + key-less records = input records.
C11_WarningsReturnedToCaller ==
    (pc = "cleaned" /\ ~threw) =>
        /\ parseErrors = [i \in 1..Len(RejectedRecords(rawData)) |->
                             WarningText(RejectedRecords(rawData)[i])]
        /\ Len(data) + Len(parseErrors) + KeyLessCount(rawData) = Len(rawData)

\* C18: the structural check agrees with the normalizer: when
\* validateCSVStructure returns isValid = true, normalizing the same records
\* yields at least one normalized row; and isValid is true exactly when the
\* returned errors list is empty.
C18_StructureAgreesWithNormalizer ==
    (pc = "cleaned" /\ ~threw /\ structure # << >>) =>
        /\ structure[1].isValid => Len(data) >= 1
        /\ structure[1].isValid <=> structure[1].errors = << >>

\* the summary of a comparison side counts and totals exactly the rows whose
\* category is the given name
SummarisesCategory(side) ==
    LET rows == RowsOf(data, side.name)
    IN  /\ side.summary.totalRows = Num(Cardinality(rows))
        /\ side.summary.grandTotal =
              Num(IntSum([i \in 1..Len(data) |-> data[i][PriceKey].n], rows))

DifferencesOfSummaries(v) ==
    /\ v.comparison.countDifference =
          JsSub(v.department1.summary.totalRows, v.department2.summary.totalRows)
    /\ v.comparison.totalDifference =
          JsSub(v.department1.summary.grandTotal, v.department2.summary.grandTotal)
    /\ v.comparison.averageDifference =
          JsSub(v.department1.summary.averagePerTransaction,
                v.department2.summary.averagePerTransaction)

\* C12: compareDepartments(data, dept1, dept2) summarises for each name exactly
\* the rows of data that belong to that category, and its countDifference,
\* totalDifference and averageDifference are department1's totalRows, grandTotal
\* and averagePerTransaction minus department2's.
C12_ComparesEachCategorysRows ==
    queryResult.op = "compareDepartments" =>
        /\ SummarisesCategory(queryResult.value.department1)
        /\ SummarisesCategory(queryResult.value.department2)
        /\ DifferencesOfSummaries(queryResult.value)

\* JSON.parse of a number or null, and of a string
ParseJsonNumber(x) == IF x.j = "null" THEN Null ELSE x.v

ParseJsonString(x) == x.v

\* JSON.parse of a DepartmentCount, a DepartmentTotal and an object of numbers
ParseCount(x) ==
    [department |-> ParseJsonString(x.department),
     count      |-> ParseJsonNumber(x.count),
     percentage |-> ParseJsonNumber(x.percentage)]

ParseTotal(x) ==
    [department |-> ParseJsonString(x.department),
     total      |-> ParseJsonNumber(x.total),
     average    |-> ParseJsonNumber(x.average),
     percentage |-> ParseJsonNumber(x.percentage)]

ParseNumbers(x) == [field \in DOMAIN x |-> ParseJsonNumber(x[field])]

\* JSON.parse of a counts or totals document
ParseCountsDocument(doc) ==
    [type      |-> ParseJsonString(doc.type),
     generated |-> ParseJsonString(doc.generated),
     summary   |-> ParseNumbers(doc.summary),
     data      |-> [i \in 1..Len(doc.data) |-> ParseCount(doc.data[i])]]

ParseTotalsDocument(doc) ==
    [type      |-> ParseJsonString(doc.type),
     generated |-> ParseJsonString(doc.generated),
     summary   |-> ParseNumbers(doc.summary),
     data      |-> [i \in 1..Len(doc.data) |-> ParseTotal(doc.data[i])]]

Exported == exported.op # "none"

ReportKindOf(op) ==
    CASE op = "exportDepartmentCounts" -> "department_counts"
      [] op = "exportDepartmentTotals" -> "department_totals"
      [] op = "exportCompleteReport" -> "department_analysis"

SupportedFormats(op) ==
    IF op = "exportCompleteReport" THEN {"csv", "txt", "json", "html"}
    ELSE {"csv", "txt", "json"}

\* the format a request resolves to: itself when supported, plain text otherwise
ResolvedFormat(op, format) == IF format \in SupportedFormats(op) THEN format ELSE "txt"

MimeTypeOf(format) ==
    CASE format = "csv" -> "text/csv"
      [] format = "json" -> "application/json"
      [] format = "html" -> "text/html"
      [] format = "txt" -> "text/plain"

\* name is kind_stamp.extension, stamp being the first 19 characters of the ISO
\* time with every colon replaced by a hyphen
IsReportFilename(name, kind, now, extension) ==
    /\ Len(name) = 23
    /\ name[1] = kind
    /\ name[2] = "_"
    /\ \A i \in 1..19 :
          name[i + 2] = IF toISOString(now)[i] = ":" THEN "-" ELSE toISOString(now)[i]
    /\ name[22] = "."
    /\ name[23] = extension
    /\ \A i \in 1..Len(name) : name[i] # ":"

\* C13: for every export target and requested format the returned triple is
\* consistent: the filename is {reportKind}_{timestamp}.{extension} without a
\* colon, and extension, mimeType and the renderer of content belong to one
\* format, which is plain text whenever the requested format is not supported.
C13_ExportTripleIsConsistent ==
    Exported =>
        LET format == ResolvedFormat(exported.op, exported.format)
        IN  /\ IsReportFilename(exported.result.filename, ReportKindOf(exported.op),
                                exported.now, format)
            /\ exported.result.mimeType = MimeTypeOf(format)
            /\ exported.result.content.syntax = format

C13_Witness ==
    /\ Exported
    /\ exported.op = "exportDepartmentTotals"
    /\ exported.format = "html"
    /\ exported.result.mimeType = "text/plain"
    /\ exported.result.filename[16] = "-"

\* the aggregate list an export of counts or totals was given
ExportedList ==
    IF exported.op = "exportDepartmentCounts" THEN result[1].departmentCounts
    ELSE result[1].departmentTotals

ExportedAs(syntax) == Exported /\ exported.result.content.syntax = syntax

BeginsWith(line, chunk) == line # << >> /\ line[1] = chunk

LastLine(lines) == lines[Len(lines)]

\* C14: every plain-text report (counts, totals, complete), also the one of an
\* empty aggregate list, has a "Generated: ..." line as its last line.
C14_TextReportEndsWithGenerated ==
    ExportedAs("txt") =>
        BeginsWith(LastLine(exported.result.content.body), "Generated: ")

HasLine(lines, line) == \E i \in 1..Len(lines) : lines[i] = line

HasHeaderRow(lines) == \E i \in 1..Len(lines) : BeginsWith(lines[i], "Department Name")

\* C15: the plain-text and the delimited-text rendering of an empty counts or
\* totals list contains the line "No data available" and no table header row.
C15_EmptyListRendersNoData ==
    ( /\ ExportedAs("txt") \/ ExportedAs("csv")
      /\ exported.op \in {"exportDepartmentCounts", "exportDepartmentTotals"}
      /\ ExportedList = << >> ) =>
        /\ HasLine(exported.result.content.body, NoDataLine)
        /\ ~HasHeaderRow(exported.result.content.body)

C17_TotalsJsonSummaryIsFinite ==
    (ExportedAs("json") /\ exported.op = "exportDepartmentTotals") =>
        LET summary == exported.result.content.body.summary
        IN  /\ \A field \in DOMAIN summary : summary[field].j = "number"
            /\ ExportedList = << >> => summary.overallAverage = JsonNumber(Num(0))

AllReadsCompleted == reads = {}

\* C19: on the upload page, whatever the interleaving of file selections and read
\* completions, once all reads have completed processed is the aggregate of the
\* file selected last (the one file refers to), and a download click made then
\* exports that file's result.
C19_ProcessedIsOfLatestFile ==
    /\ (AllReadsCompleted /\ file # << >> /\ file[1].readable) =>
          processed = <<AggregateOf(file[1])>>
    /\ ( /\ download.clicked
         /\ ~download.pending
         /\ download.file # << >>
         /\ download.file[1].readable ) =>
          download.sink
             = <<exportAllFormats(AggregateOf(download.file[1]), download.now)>>

\* C20: on the upload page the error message and a processed result are never
\* both present (error non-empty implies processed is null), and a download
\* click hands a payload to the download sink only when processed is not null.
C20_ErrorExcludesProcessed ==
    /\ error # "" => processed = << >>
    /\ (download.clicked /\ download.sink # << >>) => download.processed # << >>

====
